---- MODULE Spec2Model ----
(***************************************************************************)
(* Model of UNet3DTrainer (src/trainer/trainerunet3d.py): the epoch loop   *)
(* of fit, the batch loop of train with its validation cycle               *)
(* (validate, _is_best_val_accuracy, _save_checkpoint,                     *)
(* _check_early_stopping, maximum-iteration check), the learning-rate      *)
(* decay and the restore of a trainer from a checkpoint record; and of the  *)
(* loss library (src/losses/losses.py): get_loss_criterion,                *)
(* IgnoreIndexLossWrapper, expand_as_one_hot, compute_per_channel_dice.    *)
(*                                                                         *)
(* Validation accuracies are small naturals; the constructor default       *)
(* float('-inf') of best_val_accuracy is NegInf, below every accuracy.     *)
(* The learning rate is kept as the number of times it was multiplied by   *)
(* decay_rate = 0.1 (lr = lr0 * 0.1^lr_decays).                            *)
(***************************************************************************)
EXTENDS Integers, Sequences, FiniteSets, TLC

\* ------------------------------------------------------------- bounds ----
MaxPatience == 3
MaxEpochs == 2
MaxBatches == 2
MaxNumIterations == 3
MaxValidateAfter == 2
MaxAcc == 1
MaxRestores == 1

\* ---------------------------------------------------------- constants ----
NegInf == -1
RestoredPatience == 100
RestoredMaxPatience == 100

None == [none |-> TRUE]
\* Tuple lengths train unpacks: (input, target), (input, target, target_),
\* and the base batch with two augmented views.
BatchShapes == {2, 3, 6}
\* Places of validate's try block where an exception can surface.
ValStages == {"forward", "accuracy", "ratio"}
Files == {"last", "best"}

VARIABLES
    \* TrainerState and configuration (fields of UNet3DTrainer)
    num_epoch, num_iterations, best_val_accuracy, patience, max_patience,
    max_num_epochs, max_num_iterations, validate_after_iters,
    lr_decays,          \* optimizer: times param_group['lr'] was multiplied by 0.1
    num_batches,        \* len(loaders['train'])
    checkpoints,        \* checkpoint_dir: file name -> persisted record or None
    \* control state
    pc,                 \* position of the control thread
    fit_remaining,      \* iterations left of range(num_epoch, max_num_epochs)
    batch_i,            \* batches of the current epoch already taken from the loader
    val_accuracy,       \* local of train
    is_best,            \* local of train
    should_terminate,   \* value returned by train
    mode,               \* model.training: "train" or "eval"
    raised,             \* where an exception left fit ("none" if none did)
    batch_shape,        \* len(t) of the batches of loaders['train']
    target_bound,       \* the local target_ of train is bound
    loss_call,          \* the call into the loss library under study
    \* history (observation only, never read by the program)
    h

vars == << num_epoch, num_iterations, best_val_accuracy, patience, max_patience,
           max_num_epochs, max_num_iterations, validate_after_iters, lr_decays,
           num_batches, checkpoints, pc, fit_remaining, batch_i, val_accuracy,
           is_best, should_terminate, mode, raised, batch_shape, target_bound,
           loss_call, h >>

\* What no operation of fit changes: limits, loaders, the loss library.
config == << max_num_epochs, max_num_iterations, num_batches, batch_shape,
             loss_call >>

\* Execution state that only train, validate and their failures change.
exec == << mode, raised, target_bound >>

NoCall == [op |-> "none"]

Max(a, b) == IF a >= b THEN a ELSE b

\* ------------------------------------------------------------ history ----
\* h.streak        consecutive non-improving validations since the last
\*                 improving one (or since construction)
\* h.streak_base   patience held when the streak began
\* h.streak_decays learning-rate decays during the streak
\* h.streak_stop   validations of the streak at which early stopping fired
\* h.after_best    an improving validation has been checked by this trainer
\* h.fit_decays    learning-rate decays since fit was entered
\* h.prev_best     best_val_accuracy before the last _is_best_val_accuracy
\* h.init_best     best_val_accuracy at construction
\* h.seen          validation accuracies compared since construction
\* h.train_calls   train calls of this fit; h.false_returns those returning False
\* h.fit_epoch0 / h.fit_iters0  num_epoch / num_iterations when fit was entered
\* h.validations / h.saves      validate calls / checkpoint writes of this fit
\* h.opt_steps     optimizer.step() calls of this trainer
\* h.val_entered   validate calls entered by this trainer
\* h.saved_is_best flag of the last checkpoint write
\* h.cycle         steps taken since the last optimizer step
\* h.written       file name -> trainer fields at the moment it was written
\* h.restored      file the trainer was restored from ("none" if fresh)
\* h.restores      number of restores
\* h.stored        patience/max_patience found in the record restored from
HistInit(p, b, ni, ne) ==
    [ streak |-> 0, streak_base |-> p, streak_decays |-> 0, streak_stop |-> {},
      after_best |-> FALSE, fit_decays |-> 0, prev_best |-> b, init_best |-> b, seen |-> {},
      train_calls |-> 0, false_returns |-> 0, fit_epoch0 |-> ne, fit_iters0 |-> ni,
      validations |-> 0, saves |-> 0, opt_steps |-> 0, val_entered |-> 0, saved_is_best |-> FALSE, cycle |-> << >>,
      written |-> [f \in Files |-> None], restored |-> "none", restores |-> 0,
      stored |-> None ]

\* --------------------------------------------------------------- Init ----
\* UNet3DTrainer.__init__ / from_pertrain: a fresh schedule state.
Init ==
    /\ num_epoch = 0
    /\ num_iterations = 0
    /\ best_val_accuracy = NegInf
    /\ max_patience \in 1..MaxPatience
    /\ patience \in 1..(MaxPatience + 1)
    /\ max_num_epochs \in 1..MaxEpochs
    /\ max_num_iterations \in 1..MaxNumIterations
    /\ validate_after_iters \in 1..MaxValidateAfter
    /\ lr_decays = 0
    /\ num_batches \in 0..MaxBatches
    /\ checkpoints = [f \in Files |-> None]
    /\ pc = "created"
    /\ fit_remaining = 0
    /\ batch_i = 0
    /\ val_accuracy = NegInf
    /\ is_best = FALSE
    /\ should_terminate = FALSE
    /\ mode \in {"train", "eval"}
    /\ raised = "none"
    /\ batch_shape \in BatchShapes
    /\ target_bound = FALSE
    /\ loss_call = NoCall
    /\ h = HistInit(patience, best_val_accuracy, num_iterations, num_epoch)

\* ---------------------------------------------------------------- fit ----
\* for _ in range(self.num_epoch, self.max_num_epochs): the range is
\* evaluated once, on entry.
fit_enter ==
    /\ pc = "created"
    /\ fit_remaining' = Max(0, max_num_epochs - num_epoch)
    /\ pc' = "fit"
    /\ h' = [h EXCEPT !.fit_decays = 0, !.train_calls = 0, !.false_returns = 0,
                      !.fit_epoch0 = num_epoch, !.fit_iters0 = num_iterations,
                      !.validations = 0, !.saves = 0]
    /\ UNCHANGED << num_epoch, num_iterations, best_val_accuracy, patience,
                    max_patience, config, exec, validate_after_iters, lr_decays,
                    checkpoints, batch_i, val_accuracy, is_best, should_terminate >>

\* should_terminate = self.train(self.loaders['train'])
fit_call_train ==
    /\ pc = "fit"
    /\ fit_remaining > 0
    /\ fit_remaining' = fit_remaining - 1
    /\ batch_i' = 0
    /\ pc' = "train"
    /\ mode' = "train"
    /\ target_bound' = FALSE
    /\ h' = [h EXCEPT !.train_calls = @ + 1]
    /\ UNCHANGED << num_epoch, num_iterations, best_val_accuracy, patience,
                    max_patience, config, raised, validate_after_iters, lr_decays,
                    checkpoints, val_accuracy, is_best, should_terminate >>

\* the range is exhausted
fit_exhausted ==
    /\ pc = "fit"
    /\ fit_remaining = 0
    /\ pc' = "done"
    /\ UNCHANGED << num_epoch, num_iterations, best_val_accuracy, patience,
                    max_patience, config, exec, validate_after_iters, lr_decays,
                    checkpoints, fit_remaining, batch_i, val_accuracy, is_best,
                    should_terminate, h >>

\* Variant: num_epoch is incremented before the test of should_terminate.
fit_after_train_IncrementFirst ==
    /\ pc = "returned"
    /\ num_epoch' = num_epoch + 1
    /\ IF should_terminate
         THEN /\ pc' = "done"
              /\ UNCHANGED h
         ELSE /\ pc' = "fit"
              /\ h' = [h EXCEPT !.false_returns = @ + 1]
    /\ UNCHANGED << num_iterations, best_val_accuracy, patience, max_patience,
                    config, exec, validate_after_iters, lr_decays, checkpoints,
                    fit_remaining, batch_i, val_accuracy, is_best, should_terminate >>

\* if should_terminate: break / self.num_epoch += 1
fit_after_train ==
    /\ pc = "returned"
    /\ IF should_terminate
         THEN /\ pc' = "done"
              /\ UNCHANGED << num_epoch, h >>
         ELSE /\ num_epoch' = num_epoch + 1
              /\ pc' = "fit"
              /\ h' = [h EXCEPT !.false_returns = @ + 1]
    /\ UNCHANGED << num_iterations, best_val_accuracy, patience, max_patience,
                    config, exec, validate_after_iters, lr_decays, checkpoints,
                    fit_remaining, batch_i, val_accuracy, is_best, should_terminate >>

\* -------------------------------------------------------------- train ----
\* Variant: the cadence is tested on the count before the increment.
ValidationDue_BeforeIncrement(n, every) == (n - 1) % every = 0

\* Whether the validation block of train is entered after the increment.
ValidationDue(n, every) == n % every = 0

\* if len(t) == 2 / 3 / 6: only the 3-tuple assigns the local target_, which
\* _forward_pass(input, target, target_) reads.
BindsAuxTarget(shape, bound) == bound \/ shape = 3

\* One batch: forward pass, zero_grad/backward/step, self.num_iterations += 1,
\* then the test of "if self.num_iterations % self.validate_after_iters == 0".
\* Reading target_ before any 3-tuple bound it raises UnboundLocalError out
\* of train and fit.
train_batch ==
    /\ pc = "train"
    /\ batch_i < num_batches
    /\ batch_i' = batch_i + 1
    /\ target_bound' = BindsAuxTarget(batch_shape, target_bound)
    /\ IF target_bound'
         THEN /\ num_iterations' = num_iterations + 1
              /\ pc' = IF ValidationDue(num_iterations', validate_after_iters)
                         THEN "validate" ELSE "maxiter"
              /\ h' = [h EXCEPT !.cycle = << "step" >>, !.opt_steps = @ + 1]
              /\ UNCHANGED raised
         ELSE /\ pc' = "failed"
              /\ raised' = "train_forward"
              /\ UNCHANGED << num_iterations, h >>
    /\ UNCHANGED << num_epoch, best_val_accuracy, patience, max_patience, config,
                    validate_after_iters, lr_decays, checkpoints, fit_remaining,
                    val_accuracy, is_best, should_terminate, mode >>

\* the loader is exhausted: return False
train_return_false ==
    /\ pc = "train"
    /\ batch_i = num_batches
    /\ should_terminate' = FALSE
    /\ pc' = "returned"
    /\ UNCHANGED << num_epoch, num_iterations, best_val_accuracy, patience,
                    max_patience, config, exec, validate_after_iters, lr_decays,
                    checkpoints, fit_remaining, batch_i, val_accuracy, is_best, h >>

\* val_accuracy = self.validate(self.loaders['val']): the mean Dice of the
\* validation set, any value the model and the data can produce.
\* validate up to the try block: self.model.eval()
validate_enter ==
    /\ pc = "validate"
    /\ mode' = "eval"
    /\ pc' = "validating"
    /\ h' = [h EXCEPT !.val_entered = @ + 1]
    /\ UNCHANGED << num_epoch, num_iterations, best_val_accuracy, patience,
                    max_patience, config, validate_after_iters, lr_decays,
                    checkpoints, fit_remaining, batch_i, val_accuracy, is_best,
                    should_terminate, raised, target_bound >>

\* Variant: validation takes an optimizer step.
validate_StepsOptimizer ==
    /\ pc = "validating"
    /\ \E v \in 0..MaxAcc : val_accuracy' = v
    /\ mode' = "train"
    /\ pc' = "is_best"
    /\ h' = [h EXCEPT !.validations = @ + 1, !.cycle = Append(@, "validate"),
                      !.opt_steps = @ + 1]
    /\ UNCHANGED << num_epoch, num_iterations, best_val_accuracy, patience,
                    max_patience, config, validate_after_iters, lr_decays,
                    checkpoints, fit_remaining, batch_i, is_best, should_terminate,
                    raised, target_bound >>

\* The try block runs to its return, then finally: self.model.train().
validate ==
    /\ pc = "validating"
    /\ \E v \in 0..MaxAcc : val_accuracy' = v
    /\ mode' = "train"
    /\ pc' = "is_best"
    /\ h' = [h EXCEPT !.validations = @ + 1, !.cycle = Append(@, "validate")]
    /\ UNCHANGED << num_epoch, num_iterations, best_val_accuracy, patience,
                    max_patience, config, validate_after_iters, lr_decays,
                    checkpoints, fit_remaining, batch_i, is_best, should_terminate,
                    raised, target_bound >>

\* Variant: the model is put back in training mode only on the normal path.
validate_raise_NoFinally ==
    /\ pc = "validating"
    /\ \E stage \in ValStages : raised' = stage
    /\ pc' = "failed"
    /\ UNCHANGED << num_epoch, num_iterations, best_val_accuracy, patience,
                    max_patience, config, validate_after_iters, lr_decays,
                    checkpoints, fit_remaining, batch_i, val_accuracy, is_best,
                    should_terminate, mode, target_bound, h >>

\* An exception surfaces in the try block (forward pass, accuracy criterion
\* or the final ratio); finally: self.model.train(); the exception leaves
\* validate, train and fit.
validate_raise ==
    /\ pc = "validating"
    /\ \E stage \in ValStages : raised' = stage
    /\ mode' = "train"
    /\ pc' = "failed"
    /\ UNCHANGED << num_epoch, num_iterations, best_val_accuracy, patience,
                    max_patience, config, validate_after_iters, lr_decays,
                    checkpoints, fit_remaining, batch_i, val_accuracy, is_best,
                    should_terminate, target_bound, h >>

\* Variant: a tie counts as an improvement.
IsBest_Tie(v, best) == v >= best

\* _is_best_val_accuracy: the returned flag and the new best_val_accuracy.
IsBest(v, best) == v > best

NewBest(v, best) == Max(v, best)

is_best_val_accuracy ==
    /\ pc = "is_best"
    /\ is_best' = IsBest(val_accuracy, best_val_accuracy)
    /\ best_val_accuracy' = NewBest(val_accuracy, best_val_accuracy)
    /\ pc' = "save"
    /\ h' = [h EXCEPT !.prev_best = best_val_accuracy,
                      !.seen = @ \cup {val_accuracy},
                      !.cycle = Append(@, "is_best")]
    /\ UNCHANGED << num_epoch, num_iterations, patience, max_patience, config, exec,
                    validate_after_iters, lr_decays, checkpoints, fit_remaining,
                    batch_i, val_accuracy, should_terminate >>

\* --------------------------------------------------- _save_checkpoint ----
\* Variant: the accuracy of the current validation is stored as the best.
CheckpointState_CurrentAccuracy ==
    [ epoch |-> num_epoch + 1,
      num_iterations |-> num_iterations,
      best_val_accuracy |-> val_accuracy,
      optimizer_state_dict |-> lr_decays,
      max_num_epochs |-> max_num_epochs,
      max_num_iterations |-> max_num_iterations,
      validate_after_iters |-> validate_after_iters,
      max_patience |-> max_patience,
      patience |-> patience ]

\* The record handed to utils.save_checkpoint (the state dicts of the model
\* are omitted; the optimizer's state dict carries the learning rate).
CheckpointState ==
    [ epoch |-> num_epoch + 1,
      num_iterations |-> num_iterations,
      best_val_accuracy |-> best_val_accuracy,
      optimizer_state_dict |-> lr_decays,
      max_num_epochs |-> max_num_epochs,
      max_num_iterations |-> max_num_iterations,
      validate_after_iters |-> validate_after_iters,
      max_patience |-> max_patience,
      patience |-> patience ]

\* utils.save_checkpoint(state, is_best, checkpoint_dir): writes the "last"
\* file and, when is_best, a copy as the "best" file.
SaveCheckpointFiles(files, state, flag) ==
    [f \in Files |-> IF f = "last" \/ flag THEN state ELSE files[f]]

\* The trainer fields at the moment of the write (observation).
LiveState ==
    [ num_epoch |-> num_epoch, num_iterations |-> num_iterations,
      best_val_accuracy |-> best_val_accuracy,
      max_num_epochs |-> max_num_epochs,
      max_num_iterations |-> max_num_iterations ]

\* Variant: the checkpoint is written only for a best model.
save_checkpoint_OnlyBest ==
    /\ pc = "save"
    /\ checkpoints' = IF is_best
                        THEN [f \in Files |-> [ epoch |-> num_epoch + 1,
                               num_iterations |-> num_iterations,
                               best_val_accuracy |-> best_val_accuracy,
                               optimizer_state_dict |-> lr_decays,
                               max_num_epochs |-> max_num_epochs,
                               max_num_iterations |-> max_num_iterations,
                               validate_after_iters |-> validate_after_iters,
                               max_patience |-> max_patience,
                               patience |-> patience ]]
                        ELSE checkpoints
    /\ pc' = "early"
    /\ h' = [h EXCEPT !.saves = IF is_best THEN @ + 1 ELSE @,
                      !.saved_is_best = IF is_best THEN TRUE ELSE @,
                      !.written = IF is_best
                                    THEN [f \in Files |->
                                           [ num_epoch |-> num_epoch,
                                             num_iterations |-> num_iterations,
                                             best_val_accuracy |-> best_val_accuracy,
                                             max_num_epochs |-> max_num_epochs,
                                             max_num_iterations |-> max_num_iterations ]]
                                    ELSE @,
                      !.cycle = Append(@, "save")]
    /\ UNCHANGED << num_epoch, num_iterations, best_val_accuracy, patience,
                    max_patience, config, exec, validate_after_iters, lr_decays,
                    fit_remaining, batch_i, val_accuracy, is_best, should_terminate >>

save_checkpoint ==
    /\ pc = "save"
    /\ checkpoints' = SaveCheckpointFiles(checkpoints, CheckpointState, is_best)
    /\ pc' = "early"
    /\ h' = [h EXCEPT !.saves = @ + 1, !.saved_is_best = is_best,
                      !.written = [f \in Files |->
                                     IF checkpoints'[f] # checkpoints[f]
                                        \/ f = "last" \/ is_best
                                       THEN LiveState ELSE @[f]],
                      !.cycle = Append(@, "save")]
    /\ UNCHANGED << num_epoch, num_iterations, best_val_accuracy, patience,
                    max_patience, config, exec, validate_after_iters, lr_decays,
                    fit_remaining, batch_i, val_accuracy, is_best, should_terminate >>

\* ----------------------------------------------- _check_early_stopping ----
\* Variant: training stops only once patience has fallen below 0.
CheckEarlyStopping_LateStop(best_model_found, p, mp) ==
    IF best_model_found
      THEN [patience |-> mp, terminate |-> FALSE, adjust |-> FALSE]
      ELSE IF p - 1 < 0
             THEN [patience |-> p - 1, terminate |-> TRUE, adjust |-> FALSE]
             ELSE [patience |-> p - 1, terminate |-> FALSE,
                   adjust |-> (p - 1 = mp \div 2)]

\* Variant: the stop test reads patience before the decrement.
CheckEarlyStopping_StaleStop(best_model_found, p, mp) ==
    IF best_model_found
      THEN [patience |-> mp, terminate |-> FALSE, adjust |-> FALSE]
      ELSE IF p <= 0
             THEN [patience |-> p - 1, terminate |-> TRUE, adjust |-> FALSE]
             ELSE [patience |-> p - 1, terminate |-> FALSE,
                   adjust |-> (p - 1 = mp \div 2)]

\* Variant: the half-patience test reads patience before the decrement.
CheckEarlyStopping_StaleHalf(best_model_found, p, mp) ==
    IF best_model_found
      THEN [patience |-> mp, terminate |-> FALSE, adjust |-> FALSE]
      ELSE IF p - 1 <= 0
             THEN [patience |-> p - 1, terminate |-> TRUE, adjust |-> FALSE]
             ELSE [patience |-> p - 1, terminate |-> FALSE,
                   adjust |-> (p = mp \div 2)]

\* The new patience, the returned flag, and whether _adjust_learning_rate
\* is called.
CheckEarlyStopping(best_model_found, p, mp) ==
    IF best_model_found
      THEN [patience |-> mp, terminate |-> FALSE, adjust |-> FALSE]
      ELSE IF p - 1 <= 0
             THEN [patience |-> p - 1, terminate |-> TRUE, adjust |-> FALSE]
             ELSE [patience |-> p - 1, terminate |-> FALSE,
                   adjust |-> (p - 1 = mp \div 2)]

\* _adjust_learning_rate(decay_rate=0.1): new_lr = decay_rate * old_lr in
\* every parameter group.
AdjustLearningRate(decays) == decays + 1

check_early_stopping ==
    /\ pc = "early"
    /\ LET r == CheckEarlyStopping(is_best, patience, max_patience)
           d == IF lr_decays' # lr_decays THEN 1 ELSE 0
       IN /\ patience' = r.patience
          /\ lr_decays' = IF r.adjust THEN AdjustLearningRate(lr_decays)
                                      ELSE lr_decays
          /\ IF r.terminate
               THEN /\ should_terminate' = TRUE
                    /\ pc' = "returned"
               ELSE /\ pc' = "maxiter"
                    /\ UNCHANGED should_terminate
          /\ h' = IF is_best
                    THEN [h EXCEPT !.streak = 0, !.streak_base = r.patience,
                                   !.streak_decays = d, !.streak_stop = {},
                                   !.after_best = TRUE,
                                   !.fit_decays = @ + d,
                                   !.cycle = Append(@, "early")]
                    ELSE [h EXCEPT !.streak = @ + 1,
                                   !.streak_decays = @ + d,
                                   !.streak_stop = IF r.terminate
                                                     THEN @ \cup {h.streak + 1}
                                                     ELSE @,
                                   !.fit_decays = @ + d,
                                   !.cycle = Append(@, "early")]
    /\ UNCHANGED << num_epoch, num_iterations, best_val_accuracy, max_patience,
                    config, exec, validate_after_iters, checkpoints, fit_remaining,
                    batch_i, val_accuracy, is_best >>

\* ------------------------------------------- maximum-iteration check ----
\* Variant: one more iteration is tolerated.
MaxIterationsExceeded_Late(maxn, n) == maxn + 1 < n

\* if self.max_num_iterations < self.num_iterations
MaxIterationsExceeded(maxn, n) == maxn < n

max_iter_check ==
    /\ pc = "maxiter"
    /\ IF MaxIterationsExceeded(max_num_iterations, num_iterations)
         THEN /\ should_terminate' = TRUE
              /\ pc' = "returned"
         ELSE /\ pc' = "train"
              /\ UNCHANGED should_terminate
    /\ h' = [h EXCEPT !.cycle = Append(@, "maxiter")]
    /\ UNCHANGED << num_epoch, num_iterations, best_val_accuracy, patience,
                    max_patience, config, exec, validate_after_iters, lr_decays,
                    checkpoints, fit_remaining, batch_i, val_accuracy, is_best >>

\* ---------------------------------------------------- from_checkpoint ----
\* utils.load_checkpoint(checkpoint_path, model, optimizer): the record as
\* persisted; the optimizer gets its saved state back.
LoadCheckpoint(files, f) == files[f]

\* Variant: the stored patience values are kept.
FromCheckpointState_KeepSaved(state) == state

\* state['patience'] = 100; state['max_patience'] = 100
FromCheckpointState(state) ==
    [state EXCEPT !.patience = RestoredPatience,
                  !.max_patience = RestoredMaxPatience]

\* A new trainer is built from a checkpoint file once fit has ended.
from_checkpoint ==
    /\ pc = "done"
    /\ h.restores < MaxRestores
    /\ \E f \in Files, every \in 1..MaxValidateAfter :
         /\ checkpoints[f] # None
         /\ LET saved == LoadCheckpoint(checkpoints, f)
                state == FromCheckpointState(saved)
            IN /\ best_val_accuracy' = state.best_val_accuracy
               /\ num_iterations' = state.num_iterations
               /\ num_epoch' = state.epoch
               /\ max_num_epochs' = state.max_num_epochs
               /\ max_num_iterations' = state.max_num_iterations
               /\ max_patience' = state.max_patience
               /\ patience' = state.patience
               /\ validate_after_iters' = every
               /\ lr_decays' = saved.optimizer_state_dict
               /\ h' = [HistInit(state.patience, state.best_val_accuracy,
                                 state.num_iterations, state.epoch)
                          EXCEPT !.written = h.written, !.restored = f,
                                 !.restores = h.restores + 1,
                                 !.stored = [patience |-> saved.patience,
                                             max_patience |-> saved.max_patience]]
    /\ pc' = "created"
    /\ fit_remaining' = 0
    /\ batch_i' = 0
    /\ val_accuracy' = NegInf
    /\ is_best' = FALSE
    /\ should_terminate' = FALSE
    /\ raised' = "none"
    /\ target_bound' = FALSE
    /\ UNCHANGED << num_batches, batch_shape, loss_call, checkpoints, mode >>

\* ------------------------------------------------------ specification ----
Next ==
    \/ fit_enter
    \/ fit_call_train
    \/ fit_exhausted
    \/ fit_after_train
    \/ train_batch
    \/ train_return_false
    \/ validate_enter
    \/ validate
    \/ validate_raise
    \/ is_best_val_accuracy
    \/ save_checkpoint
    \/ check_early_stopping
    \/ max_iter_check
    \/ from_checkpoint

Spec == Init /\ [][Next]_vars

TypeOK ==
    /\ pc \in {"created", "fit", "train", "validate", "is_best", "save",
               "early", "maxiter", "returned", "done", "validating", "failed"}
    /\ num_epoch \in Nat /\ num_iterations \in Nat
    /\ best_val_accuracy \in NegInf..MaxAcc
    /\ patience \in Int /\ max_patience \in Nat
    /\ lr_decays \in Nat
    /\ is_best \in BOOLEAN /\ should_terminate \in BOOLEAN

\* ======================================================= loss library ====
\* Optional arguments are sets: {} is Python's None, {x} is the value x.
MaxBatch == 2
MaxChannels == 2
MaxWidth == 1
MaxLevel == 2
MaxCells == 4

CEDefaultIgnore == -100
IgnoreIndex == -1
EpsInv == 100000

SUPPORTED_LOSSES == {"ce", "bce", "wce", "pce", "dice", "gdl", "EntropyLoss", "focal"}

\* Names a configuration may carry: the supported ones and some that are not.
LossNames == SUPPORTED_LOSSES \cup {"bogus", "Dice", "entropy", ""}

Returned(v) == [raised |-> "none", value |-> v]

Raised(e) == [raised |-> e, value |-> None]

\* A loss object: its class, the attributes its constructor sets, the
\* weight and ignore_index it keeps, and the loss it wraps (if any).
Instance(cls, attrs, weight, ignore_index, inner) ==
    [cls |-> cls, attrs |-> attrs, weight |-> weight,
     ignore_index |-> ignore_index, inner |-> inner]

\* torch.nn.BCEWithLogitsLoss(): no ignore_index attribute.
BCEWithLogitsLoss ==
    Instance("BCEWithLogitsLoss", {"weight", "pos_weight", "reduction"}, {}, {}, {})

\* torch.nn.CrossEntropyLoss(weight=, ignore_index=)
CrossEntropyLoss(weight, ignore_index) ==
    Instance("CrossEntropyLoss", {"weight", "ignore_index", "reduction"},
             weight, ignore_index, {})

WeightedCrossEntropyLoss(weight, ignore_index) ==
    Instance("WeightedCrossEntropyLoss", {"weight", "ignore_index"},
             weight, ignore_index, {})

PixelWiseCrossEntropyLoss(class_weights, ignore_index) ==
    Instance("PixelWiseCrossEntropyLoss",
             {"class_weights", "ignore_index", "log_softmax", "sigmoid"},
             class_weights, ignore_index, {})

GeneralizedDiceLoss(weight, ignore_index) ==
    Instance("GeneralizedDiceLoss",
             {"epsilon", "weight", "ignore_index", "normalization"},
             weight, ignore_index, {})

DiceLoss(weight, ignore_index) ==
    Instance("DiceLoss", {"epsilon", "weight", "ignore_index", "normalization"},
             weight, ignore_index, {})

EntropyLoss(weight, ignore_index) ==
    Instance("EntropyLoss", {"epsilon", "weight", "ignore_index", "normalization"},
             weight, ignore_index, {})

\* FocalLoss.__init__ accepts ignore_index and does not keep it.
FocalLoss(weight, ignore_index) ==
    Instance("FocalLoss", {"weight", "gamma", "nll_loss"}, weight, {}, {})

\* Variant: the wrapper does not look for an ignore_index attribute.
IgnoreIndexLossWrapper_NoCheck(loss_criterion, ignore_index) ==
    Returned(Instance("IgnoreIndexLossWrapper", {"loss_criterion", "ignore_index"},
                      {}, ignore_index, {loss_criterion}))

\* IgnoreIndexLossWrapper.__init__: RuntimeError if the wrapped loss has an
\* ignore_index attribute.
IgnoreIndexLossWrapper(loss_criterion, ignore_index) ==
    IF "ignore_index" \in loss_criterion.attrs
      THEN Raised("RuntimeError")
      ELSE Returned(Instance("IgnoreIndexLossWrapper",
                             {"loss_criterion", "ignore_index"},
                             {}, ignore_index, {loss_criterion}))

\* Variant: the name is not validated; unknown names fall to the last branch.
get_loss_criterion_NoAssert(loss_str, weight, ignore_index) ==
    IF loss_str = "bce"
      THEN IF ignore_index = {}
             THEN Returned(BCEWithLogitsLoss)
             ELSE IgnoreIndexLossWrapper(BCEWithLogitsLoss, ignore_index)
      ELSE IF loss_str = "dice"
             THEN Returned(DiceLoss(weight, ignore_index))
             ELSE Returned(EntropyLoss(weight, ignore_index))

get_loss_criterion(loss_str, weight, ignore_index) ==
    IF loss_str \notin SUPPORTED_LOSSES
      THEN Raised("AssertionError")
    ELSE IF loss_str = "bce"
      THEN IF ignore_index = {}
             THEN Returned(BCEWithLogitsLoss)
             ELSE IgnoreIndexLossWrapper(BCEWithLogitsLoss, ignore_index)
    ELSE IF loss_str = "ce"
      THEN Returned(CrossEntropyLoss(weight,
               IF ignore_index = {} THEN {CEDefaultIgnore} ELSE ignore_index))
    ELSE IF loss_str = "wce"
      THEN Returned(WeightedCrossEntropyLoss(weight,
               IF ignore_index = {} THEN {CEDefaultIgnore} ELSE ignore_index))
    ELSE IF loss_str = "pce"
      THEN Returned(PixelWiseCrossEntropyLoss(weight, ignore_index))
    ELSE IF loss_str = "gdl"
      THEN Returned(GeneralizedDiceLoss(weight, ignore_index))
    ELSE IF loss_str = "dice"
      THEN Returned(DiceLoss(weight, ignore_index))
    ELSE IF loss_str = "focal"
      THEN Returned(FocalLoss(weight, ignore_index))
    ELSE Returned(EntropyLoss(weight, ignore_index))

\* Class-weight vectors and ignore_index values a configuration may give.
WeightArgs == {{}, {<< 1, 2 >>}}

IgnoreArgs == {{}, {IgnoreIndex}, {0}}

\* Loss objects a caller may hand to the wrapper.
Wrappable ==
    {BCEWithLogitsLoss, CrossEntropyLoss({}, {CEDefaultIgnore}),
     WeightedCrossEntropyLoss({}, {IgnoreIndex}), PixelWiseCrossEntropyLoss({}, {}),
     GeneralizedDiceLoss({}, {}), DiceLoss({}, {}), EntropyLoss({}, {}),
     FocalLoss({}, {IgnoreIndex})}

\* ---------------------------------------------------- expand_as_one_hot ----
\* A label image of shape (N, D, H, W) with D = H = 1 is
\* [N |-> N, W |-> W, at |-> [<<n, w>> |-> label]]; an index tensor of shape
\* (d0, d1, 1, 1, W) is [d0, d1, W, at |-> [<<i, j, w>> |-> label]]; a result
\* of shape (N, C, 1, 1, W) is [N, C, W, at |-> [<<n, c, w>> |-> value]].
\* Indices count from 0.
Idx(n) == 0..(n - 1)

\* input.unsqueeze(dim) for dim 0 and dim 1.
Unsqueeze(input, dim) ==
    IF dim = 0
      THEN [d0 |-> 1, d1 |-> input.N, W |-> input.W,
            at |-> [x \in Idx(1) \X Idx(input.N) \X Idx(input.W) |->
                      input.at[<< x[2], x[3] >>]]]
      ELSE [d0 |-> input.N, d1 |-> 1, W |-> input.W,
            at |-> [x \in Idx(input.N) \X Idx(1) \X Idx(input.W) |->
                      input.at[<< x[1], x[3] >>]]]

\* src.expand(shape): a dimension of size 1 is repeated, any other must match.
CanExpand(src, N, C) == (src.d0 = N \/ src.d0 = 1) /\ (src.d1 = C \/ src.d1 = 1)

Expand(src, N, C) ==
    [x \in Idx(N) \X Idx(C) \X Idx(src.W) |->
        src.at[<< IF src.d0 = 1 THEN 0 ELSE x[1],
                  IF src.d1 = 1 THEN 0 ELSE x[2], x[3] >>]]

\* torch.zeros(shape).scatter_(1, src, 1):
\* result[i][src[i][j][w]][w] = 1 for every position (i, j, w) of src.
CanScatter(src, N, C) ==
    /\ src.d0 <= N
    /\ \A x \in DOMAIN src.at : src.at[x] \in Idx(C)

Scatter(src, N, C) ==
    [x \in Idx(N) \X Idx(C) \X Idx(src.W) |->
        IF x[1] \in Idx(src.d0)
           /\ \E j \in Idx(src.d1) : src.at[<< x[1], j, x[3] >>] = x[2]
          THEN 1 ELSE 0]

expand_as_one_hot(input, C, ignore_index) ==
    LET N == input.N
        src == Unsqueeze(input, 0)
        out(at) == Returned([N |-> N, C |-> C, W |-> input.W, at |-> at])
    IN  IF ignore_index # {}
          THEN LET ig == CHOOSE i \in ignore_index : TRUE
                   zeroed == [src EXCEPT !.at = [x \in DOMAIN src.at |->
                                 IF src.at[x] = ig THEN 0 ELSE src.at[x]]]
               IN  IF ~CanExpand(src, N, C) THEN Raised("RuntimeError")
                   ELSE IF ~CanScatter(zeroed, N, C) THEN Raised("RuntimeError")
                   ELSE LET mask == [x \in Idx(N) \X Idx(C) \X Idx(input.W) |->
                                        Expand(src, N, C)[x] = ig]
                            result == Scatter(zeroed, N, C)
                        IN  out([x \in DOMAIN result |->
                                   IF mask[x] THEN ig ELSE result[x]])
          ELSE IF ~CanScatter(src, N, C) THEN Raised("RuntimeError")
               ELSE out(Scatter(src, N, C))

\* Label images with labels drawn from a set.
LabelImages(N, W, labels) ==
    {[N |-> N, W |-> W, at |-> f] : f \in [Idx(N) \X Idx(W) -> labels]}

\* --------------------------------------------- compute_per_channel_dice ----
\* A tensor of shape (N, C, 1, 1, 1) is [N, C, at |-> [<<n, c>> |-> v]] with
\* v in 0..MaxLevel standing for the number v / MaxLevel. A per-channel
\* score is the exact fraction [num, den]; epsilon is 1 / EpsInv.
RECURSIVE SumTo(_, _)
SumTo(f, k) == IF k = 0 THEN 0 ELSE f[k - 1] + SumTo(f, k - 1)

\* flatten: (N, C, D, H, W) -> (C, N * D * H * W)
flatten(tensor) ==
    [C |-> tensor.C, M |-> tensor.N,
     at |-> [x \in Idx(tensor.C) \X Idx(tensor.N) |-> tensor.at[<< x[2], x[1] >>]]]

\* input * mask, with mask = target.ne(ignore_index)
Masked(tensor, target, ignore_index) ==
    IF ignore_index = {} THEN tensor
    ELSE [tensor EXCEPT !.at = [x \in DOMAIN tensor.at |->
             IF target.at[x] \in ignore_index THEN 0 ELSE tensor.at[x]]]

\* Variant: the factor 2 of the Dice coefficient is left out.
PerChannelDice_NoDouble(intersect, denominator) ==
    IF denominator * EpsInv < MaxLevel
      THEN [num |-> intersect * EpsInv, den |-> MaxLevel * MaxLevel]
      ELSE [num |-> intersect, den |-> MaxLevel * denominator]

\* 2. * intersect / denominator.clamp(min=epsilon), for intersect in units
\* of 1 / MaxLevel^2 and denominator in units of 1 / MaxLevel.
PerChannelDice(intersect, denominator) ==
    IF denominator * EpsInv < MaxLevel
      THEN [num |-> 2 * intersect * EpsInv, den |-> MaxLevel * MaxLevel]
      ELSE [num |-> 2 * intersect, den |-> MaxLevel * denominator]

compute_per_channel_dice(input, target, ignore_index, weight) ==
    IF << input.N, input.C >> # << target.N, target.C >>
      THEN Raised("AssertionError")
      ELSE LET fi == flatten(Masked(input, target, ignore_index))
               ft == flatten(Masked(target, target, ignore_index))
               w(c) == IF weight = {} THEN 1
                       ELSE (CHOOSE v \in weight : TRUE)[c + 1]
               intersect(c) ==
                   w(c) * SumTo([k \in Idx(fi.M) |->
                                   fi.at[<< c, k >>] * ft.at[<< c, k >>]], fi.M)
               denominator(c) ==
                   SumTo([k \in Idx(fi.M) |->
                            fi.at[<< c, k >>] + ft.at[<< c, k >>]], fi.M)
           IN  Returned([c \in Idx(input.C) |->
                           PerChannelDice(intersect(c), denominator(c))])

Tensors(N, C) ==
    {[N |-> N, C |-> C, at |-> f] : f \in [Idx(N) \X Idx(C) -> 0..MaxLevel]}

\* 1 - x elementwise.
Complement(tensor) ==
    [tensor EXCEPT !.at = [x \in DOMAIN tensor.at |-> MaxLevel - tensor.at[x]]]

\* A tensor with one more batch element.
Longer(tensor) ==
    [N |-> tensor.N + 1, C |-> tensor.C,
     at |-> [x \in Idx(tensor.N + 1) \X Idx(tensor.C) |-> 0]]

\* -------------------------------------------- calls into the loss library ----
\* The trainer is not running while the library is exercised.
TrainerIdle ==
    /\ num_epoch = 0 /\ num_iterations = 0 /\ best_val_accuracy = NegInf
    /\ max_patience = 1 /\ patience = 1 /\ max_num_epochs = 1
    /\ max_num_iterations = 1 /\ validate_after_iters = 1 /\ lr_decays = 0
    /\ num_batches = 0 /\ checkpoints = [f \in Files |-> None]
    /\ pc = "created" /\ fit_remaining = 0 /\ batch_i = 0
    /\ val_accuracy = NegInf /\ is_best = FALSE /\ should_terminate = FALSE
    /\ mode = "train" /\ raised = "none" /\ batch_shape = 3
    /\ target_bound = FALSE
    /\ h = HistInit(patience, best_val_accuracy, num_iterations, num_epoch)

trainer == << num_epoch, num_iterations, best_val_accuracy, patience,
              max_patience, max_num_epochs, max_num_iterations,
              validate_after_iters, lr_decays, num_batches, checkpoints, pc,
              fit_remaining, batch_i, val_accuracy, is_best, should_terminate,
              mode, raised, batch_shape, target_bound, h >>

LossInit == TrainerIdle /\ loss_call = NoCall

call_get_loss_criterion ==
    /\ loss_call = NoCall
    /\ \E loss_str \in LossNames, weight \in WeightArgs, ignore_index \in IgnoreArgs :
         loss_call' = [op |-> "get_loss_criterion", loss_str |-> loss_str,
                       weight |-> weight, ignore_index |-> ignore_index,
                       result |-> get_loss_criterion(loss_str, weight, ignore_index)]
    /\ UNCHANGED trainer

call_IgnoreIndexLossWrapper ==
    /\ loss_call = NoCall
    /\ \E loss_criterion \in Wrappable, ignore_index \in {IgnoreIndex, 0} :
         loss_call' = [op |-> "IgnoreIndexLossWrapper",
                       loss_criterion |-> loss_criterion,
                       ignore_index |-> {ignore_index},
                       result |-> IgnoreIndexLossWrapper(loss_criterion,
                                                         {ignore_index})]
    /\ UNCHANGED trainer

call_expand_as_one_hot ==
    /\ loss_call = NoCall
    /\ \E N \in 1..MaxBatch, C \in 1..MaxChannels, W \in 1..MaxWidth,
          ignore_index \in {{}, {IgnoreIndex}} :
         \E input \in LabelImages(N, W, Idx(C) \cup ignore_index) :
            loss_call' = [op |-> "expand_as_one_hot", input |-> input, C |-> C,
                          ignore_index |-> ignore_index,
                          result |-> expand_as_one_hot(input, C, ignore_index)]
    /\ UNCHANGED trainer

call_compute_per_channel_dice ==
    /\ loss_call = NoCall
    /\ \E N \in 1..MaxBatch, C \in 1..MaxChannels :
         /\ N * C <= MaxCells
         /\ \E input \in Tensors(N, C) :
            \E target \in {input, Complement(input), Longer(input)},
               ignore_index \in {{}, {MaxLevel}} :
               loss_call' = [op |-> "compute_per_channel_dice", input |-> input,
                             target |-> target, ignore_index |-> ignore_index,
                             weight |-> {},
                             result |-> compute_per_channel_dice(input, target,
                                                                 ignore_index, {})]
    /\ UNCHANGED trainer

LossNext ==
    \/ call_get_loss_criterion
    \/ call_IgnoreIndexLossWrapper
    \/ call_expand_as_one_hot
    \/ call_compute_per_channel_dice

LossSpec == LossInit /\ [][LossNext]_vars

\* -------------------------------------------------------- observations ----
\* train has returned True out of the early-stopping check of its last cycle.
EarlyStopped ==
    /\ pc \in {"returned", "done"}
    /\ should_terminate
    /\ h.cycle # << >>
    /\ h.cycle[Len(h.cycle)] = "early"

SetMax(S) == CHOOSE x \in S : \A y \in S : y <= x

IsPrefix(s, t) == Len(s) <= Len(t) /\ \A k \in 1..Len(s) : s[k] = t[k]

\* The trainer has just been built by from_checkpoint.
JustRestored == pc = "created" /\ h.restored # "none"

\* ------------------------------------------------------------- claims ----
\* C1: after an improving validation has reset patience to max_patience,
\* train returns True out of the early-stopping check exactly at the
\* max_patience-th consecutive non-improving validation: the streak never
\* grows beyond max_patience, and early stopping has fired iff the streak
\* has reached max_patience.
C1_EarlyStopOnMaxPatienceth ==
    (h.after_best /\ h.streak_base = max_patience) =>
        /\ h.streak <= max_patience
        /\ EarlyStopped <=> (h.streak = max_patience)
        /\ h.streak_stop = IF h.streak = max_patience THEN {max_patience} ELSE {}

C1_Witness ==
    /\ h.after_best
    /\ max_patience = 3
    /\ h.streak_base = 3
    /\ h.streak = 3
    /\ h.streak_stop = {3}
    /\ EarlyStopped

\* C2: in a streak of non-improving validations that began with
\* patience = max_patience (max_patience >= 2, in particular 3), the learning
\* rate has been decayed once if the streak has brought patience down to
\* max_patience // 2 or below and not at all before; so the decay fires in
\* the cycle whose decrement reaches max_patience // 2 and in no other,
\* the terminating cycle included.
C2_DecayOnceAtHalfPatience ==
    (h.streak_base = max_patience /\ max_patience >= 2) =>
        /\ patience = max_patience - h.streak
        /\ h.streak_decays = IF patience <= max_patience \div 2 THEN 1 ELSE 0

C2_Witness ==
    /\ max_patience = 3
    /\ h.streak_base = 3
    /\ h.streak = 3
    /\ patience = 0
    /\ h.streak_decays = 1
    /\ EarlyStopped

\* C3: during one run of fit the learning-rate decay is triggered at most
\* once.
C3_DecayAtMostOncePerFit == h.fit_decays <= 1

\* C4: _is_best_val_accuracy(v) returns true iff v is strictly greater than
\* the best held before, sets best_val_accuracy to the larger of the two, and
\* so best_val_accuracy never falls and is the maximum of its initial value
\* and all accuracies seen.
C4_BestValAccuracy ==
    /\ best_val_accuracy = SetMax(h.seen \cup {h.init_best})
    /\ (h.seen # {} /\ pc # "is_best") =>
          /\ is_best = (val_accuracy > h.prev_best)
          /\ best_val_accuracy =
                IF val_accuracy > h.prev_best THEN val_accuracy ELSE h.prev_best
          /\ best_val_accuracy >= h.prev_best

C4_Witness ==
    /\ pc = "save"
    /\ Cardinality(h.seen) >= 2
    /\ val_accuracy = h.prev_best
    /\ ~is_best
    /\ best_val_accuracy = h.prev_best

\* C5: fit calls train once per epoch of range(num_epoch, max_num_epochs);
\* num_epoch grows by one per train call that returned False and by nothing
\* else; a train call that returns True ends fit with num_epoch not
\* incremented for that epoch; without one, fit ends after exactly
\* max(0, max_num_epochs - num_epoch) calls.
C5_FitEpochLoop ==
    (pc # "created") =>
        /\ num_epoch = h.fit_epoch0 + h.false_returns
        /\ h.train_calls \in {h.false_returns, h.false_returns + 1}
        /\ (pc \in {"train", "validate", "is_best", "save", "early", "maxiter",
                    "returned"}) =>
              /\ h.train_calls = h.false_returns + 1
              /\ num_epoch < max_num_epochs
        /\ (pc = "fit") => h.train_calls = h.false_returns
        /\ (pc = "done" /\ should_terminate) =>
              h.train_calls = h.false_returns + 1
        /\ (pc = "done" /\ ~should_terminate) =>
              /\ h.train_calls = h.false_returns
              /\ h.train_calls = Max(0, max_num_epochs - h.fit_epoch0)

C5_Witness ==
    /\ pc = "done"
    /\ should_terminate
    /\ h.false_returns = 1
    /\ h.train_calls = 2
    /\ num_epoch = h.fit_epoch0 + 1
    /\ num_epoch < max_num_epochs

\* C6: in a fit entered with num_iterations <= max_num_iterations, no batch
\* is started once num_iterations exceeds max_num_iterations: train has
\* returned True by the end of the batch that exceeded it, so
\* num_iterations never goes beyond max_num_iterations + 1.
C6_MaxIterations ==
    (h.fit_iters0 <= max_num_iterations) =>
        /\ num_iterations <= max_num_iterations + 1
        /\ (pc \in {"train", "fit"}) => num_iterations <= max_num_iterations
        /\ (num_iterations > max_num_iterations /\ pc \in {"returned", "done"})
              => should_terminate

C6_Witness ==
    /\ h.fit_iters0 <= max_num_iterations
    /\ num_iterations = max_num_iterations + 1
    /\ pc = "returned"
    /\ should_terminate
    /\ h.cycle = << "step", "maxiter" >>
    /\ batch_i < num_batches

\* C7: after an optimizer step, validate runs exactly when the incremented
\* num_iterations is a multiple of validate_after_iters, and the steps of the
\* cycle come in the order validate, best-accuracy comparison, checkpoint
\* save, early-stopping check, maximum-iteration check.
C7_ValidationCadenceAndOrder ==
    LET full == IF num_iterations % validate_after_iters = 0
                  THEN << "step", "validate", "is_best", "save", "early", "maxiter" >>
                  ELSE << "step", "maxiter" >>
    IN  (h.cycle # << >>) =>
            /\ IsPrefix(h.cycle, full)
            /\ (pc = "train") => h.cycle = full
            /\ (pc = "returned" /\ should_terminate) =>
                  h.cycle[Len(h.cycle)] \in {"early", "maxiter"}

C7_Witness ==
    /\ pc = "train"
    /\ validate_after_iters = 2
    /\ num_iterations = 2
    /\ h.cycle = << "step", "validate", "is_best", "save", "early", "maxiter" >>

\* C8: every validation cycle writes exactly one checkpoint, the cycle in
\* which early stopping fires included; the write is flagged best iff the
\* cycle's accuracy strictly exceeded the best held before it; and every
\* persisted record was written in a validation cycle.
C8_OneCheckpointPerValidation ==
    /\ h.saves = h.validations - (IF pc \in {"is_best", "save"} THEN 1 ELSE 0)
    /\ (h.saves > 0 /\ pc \notin {"is_best", "save"}) =>
          h.saved_is_best = (val_accuracy > h.prev_best)
    /\ EarlyStopped =>
          /\ h.saves = h.validations
          /\ checkpoints["last"] # None
          /\ checkpoints["last"].num_iterations = num_iterations
    /\ \A f \in Files : checkpoints[f] # None =>
          checkpoints[f].num_iterations % checkpoints[f].validate_after_iters = 0

C8_Witness ==
    /\ EarlyStopped
    /\ h.validations >= 2
    /\ h.saves = h.validations
    /\ ~h.saved_is_best
    /\ checkpoints["last"].num_iterations = num_iterations
    /\ checkpoints["best"].num_iterations < num_iterations

\* C9 (as stated): a trainer restored by from_checkpoint holds the
\* num_epoch, num_iterations, best_val_accuracy, max_num_epochs and
\* max_num_iterations the live trainer held when the record was written.
C9_RoundTripExact ==
    JustRestored => LiveState = h.written[h.restored]

\* C9 (amended): the restored trainer holds the num_iterations,
\* best_val_accuracy, max_num_epochs and max_num_iterations the live trainer
\* held when the record was written, and a num_epoch one greater than the
\* live trainer's.
C9_RoundTripNextEpoch ==
    JustRestored =>
        LiveState = [h.written[h.restored] EXCEPT !.num_epoch = @ + 1]

C9_Witness ==
    /\ JustRestored
    /\ h.restored = "best"
    /\ h.written["best"] # h.written["last"]
    /\ num_iterations = h.written["best"].num_iterations
    /\ num_iterations > 0
    /\ best_val_accuracy > 0

\* C10: from_checkpoint yields patience = 100 and max_patience = 100 whatever
\* patience and max_patience the record held.
C10_RestoredPatienceFixed ==
    JustRestored => (patience = 100 /\ max_patience = 100)

C10_Witness ==
    /\ JustRestored
    /\ patience = 100
    /\ max_patience = 100
    /\ h.stored.patience # 100
    /\ h.stored.max_patience # 100
    /\ h.stored.patience # h.stored.max_patience

\* C11: whenever validate has exited, by its return or by an exception
\* raised in the forward pass, the accuracy computation or the final ratio,
\* the model is in training mode: evaluation mode is only ever seen inside
\* validate (or before the first train call).
C11_TrainingModeAfterValidate ==
    /\ (h.val_entered > 0 /\ pc # "validating") => mode = "train"
    /\ (pc = "failed" /\ raised \in ValStages) => mode = "train"
    /\ (pc = "validating") => mode = "eval"

C11_Witness ==
    /\ pc = "failed"
    /\ raised = "ratio"
    /\ h.val_entered = 2
    /\ h.validations = 1
    /\ mode = "train"

\* C12: from validate's switch to evaluation mode to its exit no optimizer
\* step is taken and num_iterations, num_epoch, patience, max_patience and
\* best_val_accuracy stay as they are; every optimizer step is taken with
\* the model in training mode.
C12_NoUpdateDuringValidation ==
    [][ /\ (pc \in {"validate", "validating"}) =>
              /\ h'.opt_steps = h.opt_steps
              /\ num_iterations' = num_iterations
              /\ num_epoch' = num_epoch
              /\ patience' = patience
              /\ max_patience' = max_patience
              /\ best_val_accuracy' = best_val_accuracy
              /\ lr_decays' = lr_decays
        /\ (h'.opt_steps = h.opt_steps + 1) =>
              /\ mode = "train"
              /\ mode' = "train"
              /\ pc = "train" ]_vars

C12_Witness ==
    /\ pc = "is_best"
    /\ mode = "train"
    /\ h.val_entered = 2
    /\ h.validations = 2
    /\ h.opt_steps = 2
    /\ num_iterations = 2

\* C13: for loaders of 2-tuples, 3-tuples and 6-tuples alike, every batch
\* train takes completes its forward pass and optimizer step and increments
\* num_iterations; none raises.
C13_AllBatchShapesTrain ==
    (batch_shape \in {2, 3, 6}) =>
        /\ raised # "train_forward"
        /\ (pc \in {"validate", "maxiter"}) => target_bound

\* C19: max_patience is changed by no operation of fit; patience changes
\* only in _check_early_stopping, by a reset to max_patience or a decrement
\* by one; and 1 <= patience <= max_patience is kept by every step other
\* than the early-stopping check that terminates training.
PatienceInRange == 1 <= patience /\ patience <= max_patience

C19_PatienceInvariant ==
    [][ LET restore == pc = "done" /\ pc' = "created"
            stops == pc = "early" /\ pc' = "returned" /\ should_terminate'
        IN  ~restore =>
              /\ max_patience' = max_patience
              /\ (patience' # patience) =>
                    /\ pc = "early"
                    /\ patience' = max_patience \/ patience' = patience - 1
              /\ (PatienceInRange /\ ~stops) => PatienceInRange' ]_vars

C19_Witness ==
    /\ PatienceInRange
    /\ pc = "maxiter"
    /\ h.after_best
    /\ ~is_best
    /\ h.streak = 1
    /\ max_patience = 3
    /\ patience = 2

\* ------------------------------------------------- loss library claims ----
LossClasses ==
    {"CrossEntropyLoss", "BCEWithLogitsLoss", "IgnoreIndexLossWrapper",
     "WeightedCrossEntropyLoss", "PixelWiseCrossEntropyLoss", "DiceLoss",
     "GeneralizedDiceLoss", "EntropyLoss", "FocalLoss"}

\* C14: get_loss_criterion fails with an AssertionError, with no loss
\* constructed, for every name outside {ce, bce, wce, pce, dice, gdl,
\* EntropyLoss, focal}, and returns a loss instance for every name inside
\* it, whatever weight and ignore_index are (None included).
C14_FactoryValidatesName ==
    (loss_call.op = "get_loss_criterion") =>
        IF loss_call.loss_str \in
             {"ce", "bce", "wce", "pce", "dice", "gdl", "EntropyLoss", "focal"}
          THEN /\ loss_call.result.raised = "none"
               /\ loss_call.result.value # None
               /\ loss_call.result.value.cls \in LossClasses
          ELSE /\ loss_call.result.raised = "AssertionError"
               /\ loss_call.result.value = None

C14_Witness ==
    /\ loss_call.op = "get_loss_criterion"
    /\ loss_call.loss_str = "Dice"
    /\ loss_call.weight # {}
    /\ loss_call.ignore_index = {IgnoreIndex}
    /\ loss_call.result.raised = "AssertionError"

\* C15: constructing IgnoreIndexLossWrapper around a loss that has an
\* ignore_index attribute raises at construction and succeeds otherwise; the
\* factory returns a wrapper exactly for 'bce' with an ignore_index given
\* (plain BCEWithLogitsLoss without one), so the wrapped loss never has an
\* ignore_index attribute and the factory never raises the wrapper's error.
C15_WrapperRejectsNativeIgnoreIndex ==
    /\ (loss_call.op = "IgnoreIndexLossWrapper") =>
          IF "ignore_index" \in loss_call.loss_criterion.attrs
            THEN /\ loss_call.result.raised = "RuntimeError"
                 /\ loss_call.result.value = None
            ELSE /\ loss_call.result.raised = "none"
                 /\ loss_call.result.value.cls = "IgnoreIndexLossWrapper"
                 /\ loss_call.result.value.inner = {loss_call.loss_criterion}
                 /\ loss_call.result.value.ignore_index = loss_call.ignore_index
    /\ (loss_call.op = "get_loss_criterion") =>
          /\ loss_call.result.raised # "RuntimeError"
          /\ (loss_call.result.raised = "none") =>
                /\ (loss_call.result.value.cls = "IgnoreIndexLossWrapper")
                     <=> (loss_call.loss_str = "bce" /\ loss_call.ignore_index # {})
                /\ (loss_call.loss_str = "bce" /\ loss_call.ignore_index = {})
                     => loss_call.result.value = BCEWithLogitsLoss
                /\ \A inner \in loss_call.result.value.inner :
                     "ignore_index" \notin inner.attrs

C15_Witness ==
    /\ loss_call.op = "IgnoreIndexLossWrapper"
    /\ loss_call.loss_criterion = DiceLoss({}, {})
    /\ loss_call.result.raised = "RuntimeError"

\* torch.argmax along the channel axis (the first of equal maxima).
ArgMax(f, C) ==
    CHOOSE c \in Idx(C) :
        /\ \A d \in Idx(C) : f[d] <= f[c]
        /\ \A d \in Idx(C) : d < c => f[d] < f[c]

\* C16: for every label image of shape (N, D, H, W) with labels in [0, C)
\* and every N >= 1, expand_as_one_hot(labels, C) has shape (N, C, D, H, W),
\* sums to 1 over the channels at every position, and its argmax over the
\* channels is the label at that position.
C16_OneHotRoundTrip ==
    (loss_call.op = "expand_as_one_hot" /\ loss_call.ignore_index = {}) =>
        /\ loss_call.result.raised = "none"
        /\ LET input == loss_call.input
               out == loss_call.result.value
               channels(n, w) == [c \in Idx(loss_call.C) |-> out.at[<< n, c, w >>]]
           IN  /\ << out.N, out.C, out.W >> = << input.N, loss_call.C, input.W >>
               /\ \A n \in Idx(input.N), w \in Idx(input.W) :
                     /\ SumTo(channels(n, w), loss_call.C) = 1
                     /\ ArgMax(channels(n, w), loss_call.C) = input.at[<< n, w >>]

\* C17: with an ignore_index, for every label image and every N >= 1 and
\* C >= 1, expand_as_one_hot succeeds, every position labelled ignore_index
\* holds ignore_index in every channel of the result, and every other
\* position holds the one-hot vector of its label.
C17_IgnoreIndexKept ==
    (loss_call.op = "expand_as_one_hot" /\ loss_call.ignore_index # {}) =>
        /\ loss_call.result.raised = "none"
        /\ LET input == loss_call.input
               out == loss_call.result.value
           IN  \A n \in Idx(input.N), w \in Idx(input.W), c \in Idx(loss_call.C) :
                  out.at[<< n, c, w >>] =
                      IF input.at[<< n, w >>] \in loss_call.ignore_index
                        THEN input.at[<< n, w >>]
                        ELSE IF input.at[<< n, w >>] = c THEN 1 ELSE 0

\* |q - 1| <= epsilon for a fraction q.
WithinEpsilonOfOne(q) ==
    (IF q.num >= q.den THEN q.num - q.den ELSE q.den - q.num) * EpsInv <= q.den

IdenticalCall ==
    /\ loss_call.op = "compute_per_channel_dice"
    /\ loss_call.target = loss_call.input
    /\ loss_call.ignore_index = {}
    /\ loss_call.weight = {}

====
